---- MODULE Spec2Model ----
(***************************************************************************)
(* Model of "validation/QY/QY_wo_nitrate_ratio/QY - Tomato2022.py".        *)
(*                                                                         *)
(* The script is a straight line of statements.  Each statement is one     *)
(* action; pc names the source line that runs next.  The library calls     *)
(* (read_sbml_model, the objective / bounds setters, pfba, Series lookup)  *)
(* either return or raise, and what they return is an input of the run,    *)
(* so both are chosen nondeterministically from small sets.                *)
(*                                                                         *)
(* Numbers are float64 in the program.  They are modelled sign-magnitude   *)
(* (as IEEE 754 does, so that -0.0, inf, -inf and nan exist) with the      *)
(* magnitude kept on a decimal grid of Prec fractional digits.             *)
(***************************************************************************)
EXTENDS Integers, Sequences, FiniteSets, TLC

\* ---------------------------------------------------------------- bounds
\* largest magnitude of the small solver fluxes drawn as inputs
MaxFlux == 2
\* fractional decimal digits a modelled float keeps
Prec == 3

Scale == 10 ^ Prec

\* (0.11, 0.11) of lines 21 and 24, in hundredths
Bound011 == 11

\* ---------------------------------------------------------------- floats
Fin(s, m) == [k |-> "fin", s |-> s, m |-> m]
Inf(s) == [k |-> "inf", s |-> s, m |-> 0]
NaN == [k |-> "nan", s |-> 1, m |-> 0]

\* the float of a whole number with a sign
Num(s, n) == Fin(s, n * Scale)

\* unary minus of line 29 / 30: flips the sign bit, also of zero and inf
Neg(x) == IF x.k = "nan" THEN NaN ELSE [x EXCEPT !.s = -x.s]

\* n / d rounded to the nearest integer, ties to even (d > 0)
RoundDiv(n, d) ==
    LET q == n \div d
        r == n % d
    IN  IF 2 * r > d \/ (2 * r = d /\ q % 2 = 1) THEN q + 1 ELSE q

\* numpy.float64.__truediv__: no exception on a zero divisor
TrueDiv(a, b) ==
    IF a.k = "nan" \/ b.k = "nan" THEN NaN
    ELSE IF a.k = "inf" /\ b.k = "inf" THEN NaN
    ELSE IF a.k = "inf" THEN Inf(a.s * b.s)
    ELSE IF b.k = "inf" THEN Fin(a.s * b.s, 0)
    ELSE IF b.m = 0 THEN (IF a.m = 0 THEN NaN ELSE Inf(a.s * b.s))
    ELSE Fin(a.s * b.s, RoundDiv(a.m * Scale, b.m))

\* ---------------------------------------------------------------- inputs
\* the fluxes of the worked example: 10, -20, 5, -10
ExampleFluxes == {Num(1, 10), Num(-1, 20), Num(1, 5), Num(-1, 10)}

FluxVals == {Num(s, n) : s \in {1, -1}, n \in 0..MaxFlux} \cup ExampleFluxes

\* the reaction ids the script names for each model file
OriginalRxns == {"EX_photon_h", "BIOMASS_STEM", "RBPCh"}
DielRxns == {"EX_photon_h_Day", "Biomass_Total", "RBPCh_Day"}

\* the flux keys the script reads
ReadKeys == {"RBPCh", "EX_photon_h", "RBPCh_Day", "EX_photon_h_Day"}

\* bounds of a reaction as the model file gives them, in hundredths
FileBounds == <<0, 100000>>

\* the models a file can hold: any of the named reactions may be absent, and
\* the file fixes the initial objective direction
Models(rxns) ==
    {[reactions |-> R, objective |-> "file", objective_direction |-> d,
      bounds |-> [r \in R |-> FileBounds], context |-> FALSE] :
        R \in SUBSET rxns, d \in {"max", "min"}}

\* every Series a solve of model m can return: one flux per reaction of m
\* (only the keys the script reads are kept)
FluxMaps(m) == [m.reactions \cap ReadKeys -> FluxVals]

\* ---------------------------------------------------------------- state
VARIABLES
    pc,                       \* the source line that runs next
    heap,                     \* the cobra.Model objects, by reference
    original_model,           \* line 16: a reference into heap, 0 = unbound
    diel_tomato_model,        \* line 17
    running,                  \* references whose pfba is in progress
    pfba_calls,               \* references pfba was started on, in order
    pfba_results,             \* what each pfba that returned produced, in order
    non_diel_model,           \* QY's parameters, line 8
    diel_model,
    fba_sol_nd,               \* QY's locals, lines 9 and 10
    fba_sol_d,
    fba_sol_non_diel,         \* line 26
    fba_sol_diel_model,
    data_quantum_assimilation,
    tabel,
    file,                     \* QY_Tomato22.csv
    stdout,                   \* what print was handed, in order
    failedAt,                 \* the line whose exception ended the run, 0 = none
    log                       \* the lines that completed, in order

vars == <<pc, heap, original_model, diel_tomato_model, running, pfba_calls,
          pfba_results, non_diel_model, diel_model, fba_sol_nd, fba_sol_d,
          fba_sol_non_diel, fba_sol_diel_model, data_quantum_assimilation,
          tabel, file, stdout, failedAt, log>>

Unbound == [unbound |-> TRUE]
IsBound(x) == "unbound" \notin DOMAIN x

Init ==
    /\ pc = 16
    /\ heap = <<>>
    /\ original_model = 0
    /\ diel_tomato_model = 0
    /\ running = {}
    /\ pfba_calls = <<>>
    /\ pfba_results = <<>>
    /\ non_diel_model = 0
    /\ diel_model = 0
    /\ fba_sol_nd = Unbound
    /\ fba_sol_d = Unbound
    /\ fba_sol_non_diel = Unbound
    /\ fba_sol_diel_model = Unbound
    /\ data_quantum_assimilation = Unbound
    /\ tabel = Unbound
    /\ file = Unbound
    /\ stdout = <<>>
    /\ failedAt = 0
    /\ log = <<>>

\* an uncaught exception at line `at`: the interpreter exits
Raise(at) ==
    /\ pc' = 0
    /\ failedAt' = at
    /\ UNCHANGED log

\* line `at` completed; control moves to `next`
Goto(at, next) ==
    /\ pc' = next
    /\ log' = Append(log, at)
    /\ UNCHANGED failedAt

\* ---------------------------------------------------------------- loading
\* mutant: the loader hands out one cached object for every path
NewRef_shared(h) == 1

\* read_sbml_model builds a new Model object on every call
NewRef(h) == Len(h) + 1

Store(h, ref, m) == IF ref > Len(h) THEN Append(h, m) ELSE [h EXCEPT ![ref] = m]

\* line 16
LoadOriginal ==
    /\ pc = 16
    /\ \/ /\ Raise(16)
          /\ UNCHANGED <<heap, original_model>>
       \/ \E m \in Models(OriginalRxns) :
            /\ heap' = Store(heap, NewRef(heap), m)
            /\ original_model' = NewRef(heap)
            /\ Goto(16, 17)
    /\ UNCHANGED <<diel_tomato_model, running, pfba_calls, pfba_results, non_diel_model,
                   diel_model, fba_sol_nd, fba_sol_d, fba_sol_non_diel,
                   fba_sol_diel_model, data_quantum_assimilation, tabel, file,
                   stdout>>

\* line 17
LoadDiel ==
    /\ pc = 17
    /\ \/ /\ Raise(17)
          /\ UNCHANGED <<heap, diel_tomato_model>>
       \/ \E m \in Models(DielRxns) :
            /\ heap' = Store(heap, NewRef(heap), m)
            /\ diel_tomato_model' = NewRef(heap)
            /\ Goto(17, 19)
    /\ UNCHANGED <<original_model, running, pfba_calls, pfba_results, non_diel_model,
                   diel_model, fba_sol_nd, fba_sol_d, fba_sol_non_diel,
                   fba_sol_diel_model, data_quantum_assimilation, tabel, file,
                   stdout>>

\* ---------------------------------------------------------------- configuration
ConfigFrame ==
    UNCHANGED <<original_model, diel_tomato_model, running, pfba_calls, pfba_results,
                non_diel_model, diel_model, fba_sol_nd, fba_sol_d,
                fba_sol_non_diel, fba_sol_diel_model,
                data_quantum_assimilation, tabel, file, stdout>>

\* model.objective = "<id>": KeyError when the model has no such reaction
SetObjective(ref, rxn, at, next) ==
    /\ pc = at
    /\ IF rxn \in heap[ref].reactions
       THEN /\ heap' = [heap EXCEPT ![ref].objective = rxn]
            /\ Goto(at, next)
       ELSE /\ Raise(at)
            /\ UNCHANGED heap
    /\ ConfigFrame

\* model.objective_direction = "max"
SetDirection(ref, dir, at, next) ==
    /\ pc = at
    /\ heap' = [heap EXCEPT ![ref].objective_direction = dir]
    /\ Goto(at, next)
    /\ ConfigFrame

\* mutant: only the upper bound is assigned
BoundsPair_upper(old, lb, ub) == <<old[1], ub>>

\* reaction.bounds = (lb, ub) assigns both ends
BoundsPair(old, lb, ub) == <<lb, ub>>

\* model.reactions.<id>.bounds = (lb, ub): AttributeError when absent
SetBounds(ref, rxn, lb, ub, at, next) ==
    /\ pc = at
    /\ IF rxn \in heap[ref].reactions
       THEN /\ heap' = [heap EXCEPT ![ref].bounds[rxn] = BoundsPair(@, lb, ub)]
            /\ Goto(at, next)
       ELSE /\ Raise(at)
            /\ UNCHANGED heap
    /\ ConfigFrame

Line19 == SetObjective(original_model, "EX_photon_h", 19, 20)
Line20 == SetDirection(original_model, "max", 20, 21)
Line21 == SetBounds(original_model, "BIOMASS_STEM", Bound011, Bound011, 21, 22)
Line22 == SetObjective(diel_tomato_model, "EX_photon_h_Day", 22, 23)
Line23 == SetDirection(diel_tomato_model, "max", 23, 24)
Line24 == SetBounds(diel_tomato_model, "Biomass_Total", Bound011, Bound011, 24, 26)

\* ---------------------------------------------------------------- QY
\* line 26, the call: the arguments are bound to QY's parameters
CallQY ==
    /\ pc = 26
    /\ non_diel_model' = original_model
    /\ diel_model' = diel_tomato_model
    /\ pc' = 9
    /\ UNCHANGED <<heap, original_model, diel_tomato_model, running,
                   pfba_calls, pfba_results, fba_sol_nd, fba_sol_d, fba_sol_non_diel,
                   fba_sol_diel_model, data_quantum_assimilation, tabel, file,
                   stdout, failedAt, log>>

SolveFrame ==
    UNCHANGED <<original_model, diel_tomato_model, non_diel_model, diel_model,
                fba_sol_non_diel, fba_sol_diel_model,
                data_quantum_assimilation, tabel, file, stdout>>

\* mutant: a statement may start while the one before it is still running
AtLine_early(at) == pc = at \/ pc = at - 1

\* statements of a function body run one after the other
AtLine(at) == pc = at

\* pfba(model) enters "with model:" and starts the two-phase solve
PfbaStart(ref, at) ==
    /\ AtLine(at)
    /\ ref \notin running
    /\ running' = running \cup {ref}
    /\ pfba_calls' = Append(pfba_calls, ref)
    /\ heap' = [heap EXCEPT ![ref].context = TRUE]
    /\ UNCHANGED <<pc, failedAt, log, fba_sol_nd, fba_sol_d, pfba_results>>
    /\ SolveFrame

\* the statement after each solve of QY
AfterSolve(at) == IF at = 9 THEN 10 ELSE 12

\* an infeasible or unbounded problem: pfba raises, nothing is assigned
Infeasible(at) ==
    /\ Raise(at)
    /\ UNCHANGED <<fba_sol_nd, fba_sol_d, pfba_results>>

\* mutant: the Series is filtered of its zero fluxes before it is kept
Fluxes_nonzero(f) ==
    [k \in {j \in DOMAIN f : f[j].m # 0} |-> f[k]]

\* pfba(model).fluxes: the solution's Series as it is
Fluxes(f) == f

\* the solve ends: the context is left (the model is restored), and the
\* call either raises or returns a solution whose .fluxes is taken
PfbaEnd(ref, at) ==
    /\ pc = at
    /\ ref \in running
    /\ running' = running \ {ref}
    /\ heap' = [heap EXCEPT ![ref].context = FALSE]
    /\ UNCHANGED pfba_calls
    /\ SolveFrame
    /\ \/ Infeasible(at)
       \/ \E f \in FluxMaps(heap[ref]) :
            /\ pfba_results' = Append(pfba_results, [model |-> ref, fluxes |-> f])
            /\ IF at = 9
               THEN fba_sol_nd' = Fluxes(f) /\ UNCHANGED fba_sol_d
               ELSE fba_sol_d' = Fluxes(f) /\ UNCHANGED fba_sol_nd
            /\ Goto(at, AfterSolve(at))

\* the model line 10 solves
SecondArg == diel_model

Line9Start == PfbaStart(non_diel_model, 9)
Line9End == PfbaEnd(non_diel_model, 9)
Line10Start == PfbaStart(SecondArg, 10)
Line10End == PfbaEnd(SecondArg, 10)

\* line 12: return fba_sol_nd, fba_sol_d
ReturnPair == <<fba_sol_nd, fba_sol_d>>

\* lines 12 and 26: QY returns and the pair is unpacked
ReturnQY ==
    /\ pc = 12
    /\ fba_sol_non_diel' = ReturnPair[1]
    /\ fba_sol_diel_model' = ReturnPair[2]
    /\ pc' = 28
    /\ log' = log \o <<12, 26>>
    /\ UNCHANGED <<heap, original_model, diel_tomato_model, running,
                   pfba_calls, pfba_results, non_diel_model, diel_model, fba_sol_nd,
                   fba_sol_d, data_quantum_assimilation, tabel, file, stdout,
                   failedAt>>

\* ---------------------------------------------------------------- ratios
\* mutant: a missing key reads as 0.0, as dict.get(key, 0.0) would
Getitem_default(fluxes, key) ==
    IF key \in DOMAIN fluxes
    THEN [ok |-> TRUE, val |-> fluxes[key]]
    ELSE [ok |-> TRUE, val |-> Num(1, 0)]

\* Series.__getitem__: KeyError when the key is absent
Getitem(fluxes, key) ==
    IF key \in DOMAIN fluxes
    THEN [ok |-> TRUE, val |-> fluxes[key]]
    ELSE [ok |-> FALSE, val |-> NaN]

\* mutant: Python's own float division, which raises ZeroDivisionError
ZeroDivisionRaises_py(divisor) == divisor.k = "fin" /\ divisor.m = 0

\* the fluxes are numpy.float64: dividing by zero only warns
ZeroDivisionRaises(divisor) == FALSE

\* mutant: the denominator is not negated
QuantumYield_noneg(fixation, photon) == TrueDiv(fixation, photon)

\* lines 29 and 30: carbon fixation / - photon uptake
QuantumYield(fixation, photon) == TrueDiv(fixation, Neg(photon))

RatioFrame ==
    UNCHANGED <<heap, original_model, diel_tomato_model, running, pfba_calls, pfba_results,
                non_diel_model, diel_model, fba_sol_nd, fba_sol_d,
                fba_sol_non_diel, fba_sol_diel_model, tabel, file, stdout>>

\* lines 28-30: the list is built left to right; the first absent key raises
ComputeRatios ==
    /\ pc = 28
    /\ RatioFrame
    /\ LET a == Getitem(fba_sol_non_diel, "RBPCh")
           b == Getitem(fba_sol_non_diel, "EX_photon_h")
           c == Getitem(fba_sol_diel_model, "RBPCh_Day")
           d == Getitem(fba_sol_diel_model, "EX_photon_h_Day")
       IN  IF ~a.ok \/ ~b.ok \/ ZeroDivisionRaises(Neg(b.val))
           THEN Raise(29) /\ UNCHANGED data_quantum_assimilation
           ELSE IF ~c.ok \/ ~d.ok \/ ZeroDivisionRaises(Neg(d.val))
           THEN Raise(30) /\ UNCHANGED data_quantum_assimilation
           ELSE /\ data_quantum_assimilation' =
                     [key |-> "Quantum Yield",
                      list |-> <<QuantumYield(a.val, b.val),
                                 QuantumYield(c.val, d.val)>>]
                /\ Goto(28, 32)

\* ---------------------------------------------------------------- table
\* the labels of a default RangeIndex
RangeIndex(n) == SubSeq(<<"0", "1", "2", "3">>, 1, n)

\* line 32: pd.DataFrame(dict): one column per key, one row per list element
BuildTable ==
    /\ pc = 32
    /\ tabel' = [columns |-> <<data_quantum_assimilation.key>>,
                 index |-> RangeIndex(Len(data_quantum_assimilation.list)),
                 values |-> data_quantum_assimilation.list]
    /\ Goto(32, 34)
    /\ UNCHANGED <<heap, original_model, diel_tomato_model, running,
                   pfba_calls, pfba_results, non_diel_model, diel_model, fba_sol_nd,
                   fba_sol_d, fba_sol_non_diel, fba_sol_diel_model,
                   data_quantum_assimilation, file, stdout>>

\* mutant: the two labels in the other order
IndexLabels_swapped == <<"Created Diel Model", "Original Model">>

\* line 34
IndexLabels == <<"Original Model", "Created Diel Model">>

\* line 34: tabel.index = [...] (two labels for the two rows of line 32)
SetIndex ==
    /\ pc = 34
    /\ tabel' = [tabel EXCEPT !.index = IndexLabels]
    /\ Goto(34, 36)
    /\ UNCHANGED <<heap, original_model, diel_tomato_model, running,
                   pfba_calls, pfba_results, non_diel_model, diel_model, fba_sol_nd,
                   fba_sol_d, fba_sol_non_diel, fba_sol_diel_model,
                   data_quantum_assimilation, file, stdout>>

\* ---------------------------------------------------------------- CSV text
\* text is a sequence of one-character strings
DigitChars == <<"0", "1", "2", "3", "4", "5", "6", "7", "8", "9">>

RECURSIVE NatDigits(_)
\* the decimal digits of n >= 0, no leading zeros
NatDigits(n) ==
    IF n < 10 THEN <<DigitChars[n + 1]>>
    ELSE NatDigits(n \div 10) \o <<DigitChars[(n % 10) + 1]>>

RECURSIVE FixedDigits(_, _)
\* n as exactly w digits
FixedDigits(n, w) ==
    IF w = 0 THEN <<>>
    ELSE FixedDigits(n \div 10, w - 1) \o <<DigitChars[(n % 10) + 1]>>

RECURSIVE StripZeros(_)
\* trailing zeros dropped, one digit always kept
StripZeros(ds) ==
    IF ds = <<>> THEN <<"0">>
    ELSE IF Len(ds) > 1 /\ ds[Len(ds)] = "0"
    THEN StripZeros(SubSeq(ds, 1, Len(ds) - 1))
    ELSE ds

SignChars(x) == IF x.s = -1 THEN <<"-">> ELSE <<>>

\* mutant: the fraction is cut to one digit, as float_format="%.1f" would
FloatRepr_short(x) ==
    IF x.k = "inf" THEN SignChars(x) \o <<"i", "n", "f">>
    ELSE SignChars(x) \o NatDigits(x.m \div Scale) \o <<".">>
         \o SubSeq(FixedDigits(x.m % Scale, Prec), 1, 1)

\* the shortest text that reads back as the same float (float repr)
FloatRepr(x) ==
    IF x.k = "inf" THEN SignChars(x) \o <<"i", "n", "f">>
    ELSE SignChars(x) \o NatDigits(x.m \div Scale) \o <<".">>
         \o StripZeros(FixedDigits(x.m % Scale, Prec))

\* to_csv writes a missing value (nan) as na_rep, the empty string
CsvField(x) == IF x.k = "nan" THEN <<>> ELSE FloatRepr(x)

\* DataFrame.to_csv(sep=','): a header line with an empty index label, then
\* one line per row: the row label, then the cells
ToCsv(t) ==
    [header |-> [label |-> "", cells |-> t.columns],
     rows |-> [i \in 1..Len(t.index) |->
                 [label |-> t.index[i], cells |-> <<CsvField(t.values[i])>>]]]

\* line 36
WriteCsv ==
    /\ pc = 36
    /\ file' = ToCsv(tabel)
    /\ Goto(36, 38)
    /\ UNCHANGED <<heap, original_model, diel_tomato_model, running,
                   pfba_calls, pfba_results, non_diel_model, diel_model, fba_sol_nd,
                   fba_sol_d, fba_sol_non_diel, fba_sol_diel_model,
                   data_quantum_assimilation, tabel, stdout>>

\* mutant: a table rebuilt from the dict is printed, without the row labels
Printed_unlabelled == [tabel EXCEPT !.index = RangeIndex(Len(tabel.values))]

\* the argument of print on line 38
Printed == tabel

\* line 38: the last statement; the interpreter exits normally
PrintTable ==
    /\ pc = 38
    /\ stdout' = Append(stdout, Printed)
    /\ Goto(38, 0)
    /\ UNCHANGED <<heap, original_model, diel_tomato_model, running,
                   pfba_calls, pfba_results, non_diel_model, diel_model, fba_sol_nd,
                   fba_sol_d, fba_sol_non_diel, fba_sol_diel_model,
                   data_quantum_assimilation, tabel, file>>

\* ---------------------------------------------------------------- reading back
DigitVal(c) == CHOOSE i \in 0..9 : DigitChars[i + 1] = c

RECURSIVE DigitsNat(_)
DigitsNat(ds) ==
    IF ds = <<>> THEN 0
    ELSE 10 * DigitsNat(SubSeq(ds, 1, Len(ds) - 1)) + DigitVal(ds[Len(ds)])

\* ds padded with zeros on the right, or cut, to w digits
PadRight(ds, w) == [i \in 1..w |-> IF i <= Len(ds) THEN ds[i] ELSE "0"]

\* the float a field of the file parses to; an empty field is a missing value
ParseFloat(cs) ==
    IF cs = <<>> THEN NaN
    ELSE LET s == IF cs[1] = "-" THEN -1 ELSE 1
             body == IF cs[1] = "-" THEN SubSeq(cs, 2, Len(cs)) ELSE cs
         IN  IF body = <<"i", "n", "f">> THEN Inf(s)
             ELSE LET dot == CHOOSE i \in 1..Len(body) : body[i] = "."
                      ip == SubSeq(body, 1, dot - 1)
                      fp == SubSeq(body, dot + 1, Len(body))
                  IN  Fin(s, DigitsNat(ip) * Scale + DigitsNat(PadRight(fp, Prec)))

\* pd.read_csv(path, index_col=0) of the file line 36 wrote
ReadCsv(f) ==
    [columns |-> f.header.cells,
     index |-> [i \in 1..Len(f.rows) |-> f.rows[i].label],
     values |-> [i \in 1..Len(f.rows) |-> ParseFloat(f.rows[i].cells[1])]]

\* ---------------------------------------------------------------- the run
Next ==
    \/ LoadOriginal
    \/ LoadDiel
    \/ Line19
    \/ Line20
    \/ Line21
    \/ Line22
    \/ Line23
    \/ Line24
    \/ CallQY
    \/ Line9Start
    \/ Line9End
    \/ Line10Start
    \/ Line10End
    \/ ReturnQY
    \/ ComputeRatios
    \/ BuildTable
    \/ SetIndex
    \/ WriteCsv
    \/ PrintTable

Spec == Init /\ [][Next]_vars

\* the interpreter has exited: normally, or on an uncaught exception
Exited == pc = 0
Succeeded == pc = 0 /\ failedAt = 0
Failed == failedAt # 0

Range(f) == {f[i] : i \in DOMAIN f}

\* ---------------------------------------------------------------- C1
\* C1: a run in which any step failed has exited at that step with the file
\* unwritten and nothing printed; whenever the file is written or the table
\* printed, no step failed, both solves returned and the four keys RBPCh,
\* EX_photon_h, RBPCh_Day, EX_photon_h_Day were in their mappings.
C1_NoOutputOnFailure ==
    /\ Failed => /\ pc = 0
                 /\ ~IsBound(file)
                 /\ stdout = <<>>
                 /\ failedAt \notin Range(log)
    /\ (IsBound(file) \/ stdout # <<>>) =>
           /\ ~Failed
           /\ Len(pfba_results) = 2
           /\ running = {}
           /\ IsBound(fba_sol_non_diel)
           /\ IsBound(fba_sol_diel_model)
           /\ {"RBPCh", "EX_photon_h"} \subseteq DOMAIN fba_sol_non_diel
           /\ {"RBPCh_Day", "EX_photon_h_Day"} \subseteq DOMAIN fba_sol_diel_model

\* both solves returned, a key was absent, and the run ended at the lookup
C1_Witness ==
    /\ failedAt = 30
    /\ Len(pfba_results) = 2
    /\ "RBPCh_Day" \notin DOMAIN fba_sol_diel_model
    /\ ~IsBound(file)

\* ---------------------------------------------------------------- C2
Abs(n) == IF n < 0 THEN -n ELSE n

\* q is the float nearest to num / den (den not zero): the signs multiply and
\* the magnitude is off by at most half a unit of the grid
IsQuotient(q, num, den) ==
    /\ q.k = "fin"
    /\ q.s = num.s * den.s
    /\ 2 * Abs(q.m * den.m - num.m * Scale) <= den.m

Minus(x) == [x EXCEPT !.s = -x.s]

\* C2: the first ratio is RBPCh / (-EX_photon_h) of the non-diel mapping, the
\* second is RBPCh_Day / (-EX_photon_h_Day) of the diel mapping; the mappings
\* {RBPCh: 10, EX_photon_h: -20} and {RBPCh_Day: 5, EX_photon_h_Day: -10}
\* give 0.5 and 0.5; a positive fixation flux over a negative photon flux
\* gives a positive ratio.
C2_Ratios ==
    IsBound(data_quantum_assimilation) =>
        LET nd == fba_sol_non_diel
            d == fba_sol_diel_model
            r == data_quantum_assimilation.list
        IN  /\ Len(r) = 2
            /\ nd["EX_photon_h"].m # 0 =>
                   IsQuotient(r[1], nd["RBPCh"], Minus(nd["EX_photon_h"]))
            /\ d["EX_photon_h_Day"].m # 0 =>
                   IsQuotient(r[2], d["RBPCh_Day"], Minus(d["EX_photon_h_Day"]))
            /\ (nd["RBPCh"] = Num(1, 10) /\ nd["EX_photon_h"] = Num(-1, 20))
                   => r[1] = Fin(1, Scale \div 2)
            /\ (d["RBPCh_Day"] = Num(1, 5) /\ d["EX_photon_h_Day"] = Num(-1, 10))
                   => r[2] = Fin(1, Scale \div 2)
            /\ (nd["RBPCh"].s = 1 /\ nd["RBPCh"].m > 0
                 /\ nd["EX_photon_h"].s = -1 /\ nd["EX_photon_h"].m > 0)
                   => (r[1].k = "fin" /\ r[1].s = 1 /\ r[1].m > 0)
            /\ (d["RBPCh_Day"].s = 1 /\ d["RBPCh_Day"].m > 0
                 /\ d["EX_photon_h_Day"].s = -1 /\ d["EX_photon_h_Day"].m > 0)
                   => (r[2].k = "fin" /\ r[2].s = 1 /\ r[2].m > 0)

\* the worked example: both ratios computed from the fabricated mappings
C2_Witness ==
    /\ IsBound(data_quantum_assimilation)
    /\ fba_sol_non_diel = [RBPCh |-> Num(1, 10), EX_photon_h |-> Num(-1, 20)]
    /\ fba_sol_diel_model = [RBPCh_Day |-> Num(1, 5), EX_photon_h_Day |-> Num(-1, 10)]
    /\ data_quantum_assimilation.list = <<Fin(1, Scale \div 2), Fin(1, Scale \div 2)>>

\* ---------------------------------------------------------------- C3
\* C3: the table that is written has exactly two rows and the one column
\* "Quantum Yield"; row 1 is "Original Model" with the non-diel ratio, row 2
\* is "Created Diel Model" with the diel ratio.
C3_TableShape ==
    IsBound(file) =>
        LET nd == fba_sol_non_diel
            d == fba_sol_diel_model
            r1 == QuantumYield(nd["RBPCh"], nd["EX_photon_h"])
            r2 == QuantumYield(d["RBPCh_Day"], d["EX_photon_h_Day"])
        IN  /\ tabel.columns = <<"Quantum Yield">>
            /\ tabel.index = <<"Original Model", "Created Diel Model">>
            /\ tabel.values = <<r1, r2>>
            /\ file.header.cells = <<"Quantum Yield">>
            /\ Len(file.rows) = 2
            /\ file.rows[1].label = "Original Model"
            /\ file.rows[1].cells = <<CsvField(r1)>>
            /\ file.rows[2].label = "Created Diel Model"
            /\ file.rows[2].cells = <<CsvField(r2)>>

\* a written table whose two ratios differ, so that a swap would show
C3_Witness ==
    /\ IsBound(file)
    /\ tabel.values[1].k = "fin"
    /\ tabel.values[2].k = "fin"
    /\ tabel.values[1].m # tabel.values[2].m

\* ---------------------------------------------------------------- C4
\* the model behind ref has the given objective, maximizes, and has the given
\* reaction fixed at (0.11, 0.11)
Configured(ref, objective, fixed) ==
    /\ heap[ref].objective = objective
    /\ heap[ref].objective_direction = "max"
    /\ fixed \in DOMAIN heap[ref].bounds
    /\ heap[ref].bounds[fixed] = <<Bound011, Bound011>>

\* C4: from the moment a pFBA solve of a model starts until it ends, the
\* configuration the script assigned is in place: the non-diel model has objective EX_photon_h, direction max and BIOMASS_STEM
\* bounds (0.11, 0.11), and the diel model has objective EX_photon_h_Day,
\* direction max and Biomass_Total bounds (0.11, 0.11); only these two
\* models are ever solved.
C4_ConfiguredBeforeSolve ==
    /\ running \subseteq {original_model, diel_tomato_model}
    /\ 0 \notin running
    /\ original_model \in running =>
           Configured(original_model, "EX_photon_h", "BIOMASS_STEM")
    /\ diel_tomato_model \in running =>
           Configured(diel_tomato_model, "EX_photon_h_Day", "Biomass_Total")

\* the diel solve is in progress (the non-diel one ran before it)
C4_Witness ==
    /\ diel_tomato_model \in running
    /\ pfba_calls = <<original_model, diel_tomato_model>>

\* ---------------------------------------------------------------- C5
\* C5: at most one solve is in progress at any time; the diel solve is started
\* only after the non-diel solve has returned; when the non-diel solve raised,
\* the diel solve was never started.
C5_Sequential ==
    /\ Cardinality(running) <= 1
    /\ Len(pfba_calls) >= 2 =>
           /\ pfba_calls[1] \notin running
           /\ Len(pfba_results) >= 1
           /\ pfba_results[1].model = pfba_calls[1]
    /\ failedAt = 9 => pfba_calls = <<original_model>>

\* the diel solve in progress, the non-diel solve done
C5_Witness ==
    /\ running = {diel_tomato_model}
    /\ Len(pfba_results) = 1
    /\ pfba_results[1].model = original_model

\* ---------------------------------------------------------------- C6
\* C6: once QY has returned, its pair is exactly what the solve of its first
\* argument and the solve of its second argument produced, in that order,
\* each model was solved exactly once, and when a solve raised nothing was
\* returned.
C6_ReturnsSolutions ==
    /\ IsBound(fba_sol_non_diel) \/ IsBound(fba_sol_diel_model) =>
           /\ pfba_calls = <<original_model, diel_tomato_model>>
           /\ pfba_results =
                 <<[model |-> original_model, fluxes |-> fba_sol_non_diel],
                   [model |-> diel_tomato_model, fluxes |-> fba_sol_diel_model]>>
    /\ failedAt \in {9, 10} =>
           /\ ~IsBound(fba_sol_non_diel)
           /\ ~IsBound(fba_sol_diel_model)

\* QY has returned two mappings that hold a zero flux, which a filter would drop
C6_Witness ==
    /\ IsBound(fba_sol_non_diel)
    /\ IsBound(fba_sol_diel_model)
    /\ \E k \in DOMAIN fba_sol_non_diel : fba_sol_non_diel[k].m = 0
    /\ \E k \in DOMAIN fba_sol_diel_model : fba_sol_diel_model[k].m # 0

\* ---------------------------------------------------------------- C7
\* the model object the statement at pc works on, 0 when it works on none
Owner ==
    CASE pc \in {19, 20, 21, 9} -> original_model
      [] pc \in {22, 23, 24, 10} -> diel_tomato_model
      [] OTHER -> 0

\* C7: the two names refer to two different model objects, and every step
\* changes at most the object of the model it is applied to: a configuration
\* assignment or a solve of one model leaves the other model's objective,
\* direction, bounds and solver context as they were.
C7_NoSharedState ==
    /\ []((original_model # 0 /\ diel_tomato_model # 0)
            => original_model # diel_tomato_model)
    /\ [][\A r \in DOMAIN heap : heap'[r] # heap[r] => r = Owner]_vars

\* both models configured, each with its own objective
C7_Witness ==
    /\ pc = 26
    /\ heap[original_model].objective = "EX_photon_h"
    /\ heap[diel_tomato_model].objective = "EX_photon_h_Day"
    /\ heap[original_model].bounds # heap[diel_tomato_model].bounds

\* ---------------------------------------------------------------- C8
\* the statements of a run that succeeds, in the order they complete
FullRun == <<16, 17, 19, 20, 21, 22, 23, 24, 9, 10, 12, 26, 28, 32, 34, 36, 38>>

\* C8: the statements complete in the order load, load, configure (six
\* assignments), solve, solve, return, ratios, table, labels, write, print,
\* none twice; a run that succeeded completed all of them, printed once, the
\* printed table has the labels, column and values of the written file, and
\* nothing runs afterwards.
C8_OrderAndOutput ==
    /\ Len(log) <= Len(FullRun)
    /\ log = SubSeq(FullRun, 1, Len(log))
    /\ stdout # <<>> => Succeeded
    /\ Succeeded =>
           /\ log = FullRun
           /\ Len(stdout) = 1
           /\ IsBound(file)
           /\ file = ToCsv(stdout[1])
           /\ stdout[1].index = <<file.rows[1].label, file.rows[2].label>>
           /\ stdout[1].columns = file.header.cells
           /\ ~ENABLED Next

\* a run that ended normally, with its table printed
C8_Witness ==
    /\ Succeeded
    /\ Len(stdout) = 1
    /\ stdout[1].index = <<"Original Model", "Created Diel Model">>

\* ---------------------------------------------------------------- C9
Signed(x) == x.s * x.m

\* 1 / tolerance, the tolerance being 1e-9
TolInv == 10 ^ 9

\* a and b are numbers no further apart than the tolerance; nan is close to
\* nothing, an infinity only to itself
Close(a, b) ==
    \/ a.k = "inf" /\ b.k = "inf" /\ a.s = b.s
    \/ a.k = "fin" /\ b.k = "fin"
          /\ Abs(Signed(a) - Signed(b)) <= Scale \div TolInv

\* C9 as stated: the file read back has the same two labels in order, the
\* same column name, and two values each within 1e-9 of the value written.
C9_RoundTripAsStated ==
    IsBound(file) =>
        LET back == ReadCsv(file)
        IN  /\ back.index = tabel.index
            /\ back.columns = tabel.columns
            /\ Len(back.values) = Len(tabel.values)
            /\ \A i \in 1..Len(tabel.values) : Close(back.values[i], tabel.values[i])

\* C9 amended: the file read back has the same two labels in order and the
\* same column name; every ratio that is a number (finite or infinite) reads
\* back within 1e-9, and a ratio that is not-a-number is written as an empty
\* field and reads back as not-a-number.
C9_RoundTrip ==
    IsBound(file) =>
        LET back == ReadCsv(file)
        IN  /\ back.index = tabel.index
            /\ back.columns = tabel.columns
            /\ Len(back.values) = Len(tabel.values)
            /\ \A i \in 1..Len(tabel.values) :
                  IF tabel.values[i].k = "nan"
                  THEN file.rows[i].cells[1] = <<>> /\ back.values[i].k = "nan"
                  ELSE Close(back.values[i], tabel.values[i])

\* a written table with a not-a-number ratio beside a fractional one
C9_Witness ==
    /\ IsBound(file)
    /\ tabel.values[1].k = "nan"
    /\ tabel.values[2].k = "fin"
    /\ tabel.values[2].m % Scale # 0

\* ---------------------------------------------------------------- C10
\* C10: the ratio step raises only when one of its keys is absent; a run that
\* got all four keys ends normally with the file written and the table
\* printed, and a zero photon flux puts infinity or not-a-number in that row.
C10_ZeroPhotonFlux ==
    /\ failedAt = 29 =>
           ~({"RBPCh", "EX_photon_h"} \subseteq DOMAIN fba_sol_non_diel)
    /\ failedAt = 30 =>
           ~({"RBPCh_Day", "EX_photon_h_Day"} \subseteq DOMAIN fba_sol_diel_model)
    /\ (/\ pc = 0
        /\ IsBound(fba_sol_non_diel)
        /\ IsBound(fba_sol_diel_model)
        /\ {"RBPCh", "EX_photon_h"} \subseteq DOMAIN fba_sol_non_diel
        /\ {"RBPCh_Day", "EX_photon_h_Day"} \subseteq DOMAIN fba_sol_diel_model) =>
           /\ Succeeded
           /\ IsBound(file)
           /\ Len(stdout) = 1
           /\ fba_sol_non_diel["EX_photon_h"].m = 0 =>
                  /\ tabel.values[1].k \in {"inf", "nan"}
                  /\ stdout[1].values[1] = tabel.values[1]
                  /\ file.rows[1].cells[1] = CsvField(tabel.values[1])
           /\ fba_sol_diel_model["EX_photon_h_Day"].m = 0 =>
                  /\ tabel.values[2].k \in {"inf", "nan"}
                  /\ stdout[1].values[2] = tabel.values[2]
                  /\ file.rows[2].cells[1] = CsvField(tabel.values[2])

\* a run that ended normally with an infinite and a not-a-number ratio
C10_Witness ==
    /\ Succeeded
    /\ fba_sol_non_diel["EX_photon_h"].m = 0
    /\ fba_sol_diel_model["EX_photon_h_Day"].m = 0
    /\ tabel.values[1].k = "inf"
    /\ tabel.values[2].k = "nan"
    /\ IsBound(file)

====
